---------------------------- MODULE Spec2Model ----------------------------
(***************************************************************************)
(* Model of polygon-viewer's COLLADA loader (src/src/collada.rs):          *)
(*   load_mesh         - scans a document for the first (mesh, polylist)   *)
(*   process_polylist  - decodes one polylist into vertices and indices    *)
(*                                                                         *)
(* Floats are modelled by integers (the code only copies them).            *)
(* Option<T> is modelled by a sequence: None == <<>>, Some(v) == <<v>>.    *)
(* A Rust panic (assert_eq!, expect) is the outcome kind "panic"; an       *)
(* Err(&'static str) is the outcome kind "err"; both carry the message of  *)
(* the source.                                                             *)
(***************************************************************************)
EXTENDS Integers, Sequences, FiniteSets, TLC

VARIABLES
    document,   \* load_mesh: the parsed document, a sequence of libraries
    li, gi, pi, \* load_mesh: how far the three nested loops have advanced
    mesh,       \* process_polylist: the `mesh` argument
    polylist,   \* process_polylist: the `polylist` argument
    pc,         \* load_mesh: "libraries" | "geometries" | "primitives" | "done";
                \* process_polylist: "decode" | "returned" | "aborted"
    corner,     \* process_polylist: number of polygon corners fully processed
    builder,    \* process_polylist: vertices handed to MeshBuilder::add_vertex
    indices,    \* process_polylist: the `indices` vector
    outcome,    \* process_polylist: what the call produced
    loaded      \* load_mesh: what the call produced

vars == <<document, li, gi, pi, mesh, polylist, pc, corner, builder, indices, outcome, loaded>>

-----------------------------------------------------------------------------
(* Bounds of the model *)

\* longest input list of a polylist
MaxInputs == 3
\* most polygons in a polylist
MaxPolygons == 2
\* most nodes (libraries + geometries + primitives) of a document
MaxNodes == 5

-----------------------------------------------------------------------------
(* Option, outcomes *)

None == <<>>
Some(v) == <<v>>
IsSome(o) == o /= <<>>
Unwrap(o) == o[1]

Running == [kind |-> "running", msg |-> "", vertices |-> <<>>, indices |-> <<>>]
Ok(vs, is) == [kind |-> "ok", msg |-> "", vertices |-> vs, indices |-> is]
Err(m) == [kind |-> "err", msg |-> m, vertices |-> <<>>, indices |-> <<>>]
Panic(m) == [kind |-> "panic", msg |-> m, vertices |-> <<>>, indices |-> <<>>]

NoMeshesFound == "No meshes found in the document I guess"
MissingPositionMsg == "Vertex missing position attribute"
BuildFailedMsg == "Failed to build mesh"
ForeignVerticesMsg == "Input targets a `Vertices` that doesn't belong to same mesh"
NoPositionInputMsg == "Vertices had no input with the \"POSITION\" semantic"
NoSourceMsg == "Didn't find a source with a matching ID in the parent mesh"
NoAccessorMsg == "Source has no accessor"
NotFloatMsg == "Source wasn't a float array"
NoXMsg == "Normal had no X component"
NoYMsg == "Normal had no Y component"
NoZMsg == "Normal had no Z component"

-----------------------------------------------------------------------------
(* The document object model (collaborate::v1_4), as far as the loader reads it *)

Input(offset, semantic, source) == [offset |-> offset, semantic |-> semantic, source |-> source]
SharedInput(semantic, source) == [semantic |-> semantic, source |-> source]
Accessor(stride, params) == [stride |-> stride, params |-> params]
Source(id, array, data, accessor) == [id |-> id, array |-> array, data |-> data, accessor |-> accessor]

X == Some("X")
Y == Some("Y")
Z == Some("Z")

Ramp == <<1, 2, 3, 4, 5, 6, 7, 8, 9>>

\* the sources every mesh of the model carries
Sources == <<
    Source("positions", "float", <<0, 0, 0, 1, 0, 0, 0, 1, 0>>, Some(Accessor(3, <<X, Y, Z>>))),
    Source("normals", "float", <<0, 0, 1, 0, 0, 1, 0, 0, 1>>, Some(Accessor(3, <<X, Y, Z>>))),
    Source("zyx", "float", Ramp, Some(Accessor(3, <<Z, Y, X>>))),
    Source("xy", "float", Ramp, Some(Accessor(3, <<X, Y>>))),
    Source("short", "float", Ramp, Some(Accessor(2, <<X, Y, Z>>))),
    Source("sxyz", "float", Ramp \o <<10, 11, 12>>, Some(Accessor(4, <<None, X, Y, Z>>))),
    Source("ints", "int", Ramp, Some(Accessor(3, <<X, Y, Z>>))),
    Source("bare", "float", Ramp, None) >>

\* number of logical elements every source holds; attribute indices stay below it
Elements == {0, 1, 2}

Mesh(inputs, primitives) ==
    [vertices |-> [id |-> "verts", inputs |-> inputs], sources |-> Sources, primitives |-> primitives]

VerticesInputs ==
    {<<SharedInput("POSITION", s)>> :
        s \in {"positions", "zyx", "xy", "short", "sxyz", "ints", "bare", "ghost"}}
    \cup {<<SharedInput("NORMAL", "normals")>>,
          <<SharedInput("NORMAL", "normals"), SharedInput("POSITION", "positions")>>}

\* process_polylist never reads mesh.primitives
Meshes == {Mesh(i, <<>>) : i \in VerticesInputs}

PolylistInputs ==
    {Input(o, "VERTEX", "verts") : o \in {0, 1}}
    \cup {Input(0, "VERTEX", "alien")}
    \cup {Input(1, "NORMAL", s) : s \in {"normals", "zyx", "xy"}}
    \cup {Input(0, "TEXCOORD", "uv")}

RECURSIVE Sum(_)
Sum(s) == IF s = <<>> THEN 0 ELSE s[1] + Sum(Tail(s))

SetMax(S) == CHOOSE m \in S : \A k \in S : k <= m

\* the stride of the index stream `p`: one index per offset 0..max
Stride(inputs) == IF inputs = <<>> THEN 0 ELSE SetMax({inputs[k].offset : k \in 1..Len(inputs)}) + 1

\* an index stream for n corners: corner c, offset o holds (c + skew * o) mod |Elements|
PStream(stride, n, skew) ==
    [k \in 1..(stride * n) |-> (((k - 1) \div stride) + skew * ((k - 1) % stride)) % Cardinality(Elements)]

Polylist(inputs, vcount, skew) ==
    [inputs |-> inputs, vcount |-> vcount, p |-> PStream(Stride(inputs), Sum(vcount), skew)]

\* one triangle, p = [0,0, 1,1, 2,2], offset 0 = VERTEX, offset 1 = NORMAL
ScenarioPolylist == Polylist(<<Input(0, "VERTEX", "verts"), Input(1, "NORMAL", "normals")>>, <<3>>, 0)
ScenarioMesh == Mesh(<<SharedInput("POSITION", "positions")>>, <<>>)

\* the input lists of at most n inputs, none listed twice
InputLists(n) ==
    UNION {{s \in [1..k -> PolylistInputs] : \A i, j \in 1..k : s[i] = s[j] => i = j} : k \in 0..n}

\* the first n polygons of a run of quads and triangles: <<4, 3, 4, ...>>
VCount(n) == [k \in 1..n |-> IF k % 2 = 1 THEN 4 ELSE 3]

Polylists ==
    {Polylist(i, VCount(n), 1) : i \in InputLists(MaxInputs), n \in 0..MaxPolygons}
    \cup {ScenarioPolylist}

-----------------------------------------------------------------------------
(* Documents for load_mesh *)

NoPolylist == Polylist(<<>>, <<>>, 0)
NoMesh == Mesh(<<>>, <<>>)

\* a polylist that decodes, one without a position, one that panics
LoadPolylists ==
    {ScenarioPolylist,
     Polylist(<<Input(1, "NORMAL", "normals")>>, <<3>>, 1),
     Polylist(<<Input(0, "VERTEX", "alien")>>, <<4>>, 1)}

\* Primitive: a polylist, or another variant (as_polylist gives None)
Primitives ==
    {[kind |-> "triangles", polylist |-> NoPolylist]}
    \cup {[kind |-> "polylist", polylist |-> pl] : pl \in LoadPolylists}

\* Geometry: its geometric element is a mesh, or another variant (as_mesh gives None)
OtherGeometry == [kind |-> "other", mesh |-> NoMesh]
MeshGeometry(primitives) ==
    [kind |-> "mesh", mesh |-> Mesh(<<SharedInput("POSITION", "positions")>>, primitives)]

\* Library: library_geometries, or another variant (as_library_geometries gives None)
OtherLibrary == [kind |-> "other", geometries |-> <<>>]
GeometryLibrary(geometries) == [kind |-> "geometries", geometries |-> geometries]

\* the lists of at most n primitives
RECURSIVE PrimitiveLists(_)
PrimitiveLists(n) ==
    {<<>>} \cup
    (IF n = 0 THEN {} ELSE {<<p>> \o rest : p \in Primitives, rest \in PrimitiveLists(n - 1)})

\* nodes of a geometry: itself and its primitives
GeometryNodes(g) == 1 + Len(g.mesh.primitives)

GeometriesWithin(n) == {OtherGeometry} \cup {MeshGeometry(ps) : ps \in PrimitiveLists(n - 1)}

\* the lists of geometries of at most n nodes in all
RECURSIVE GeometryLists(_)
GeometryLists(n) ==
    {<<>>} \cup
    (IF n = 0 THEN {}
     ELSE UNION {{<<g>> \o rest : rest \in GeometryLists(n - GeometryNodes(g))} : g \in GeometriesWithin(n)})

RECURSIVE GeometryListNodes(_)
GeometryListNodes(gs) == IF gs = <<>> THEN 0 ELSE GeometryNodes(gs[1]) + GeometryListNodes(Tail(gs))

\* nodes of a library: itself and its geometries' nodes
LibraryNodes(l) == 1 + GeometryListNodes(l.geometries)

LibrariesWithin(n) == {OtherLibrary} \cup {GeometryLibrary(gs) : gs \in GeometryLists(n - 1)}

\* the lists of libraries of at most n nodes in all
RECURSIVE LibraryLists(_)
LibraryLists(n) ==
    {<<>>} \cup
    (IF n = 0 THEN {}
     ELSE UNION {{<<l>> \o rest : rest \in LibraryLists(n - LibraryNodes(l))} : l \in LibrariesWithin(n)})

Documents == LibraryLists(MaxNodes)

-----------------------------------------------------------------------------
(* Library calls of process_polylist *)

\* polylist.inputs_for_offset(offset): the inputs declared at `offset`, in order
inputs_for_offset(pl, offset) == SelectSeq(pl.inputs, LAMBDA i : i.offset = offset)

\* mesh.find_source(id): the first source with that id
find_source(m, id) ==
    LET hits == {k \in 1..Len(m.sources) : m.sources[k].id = id}
    IN  IF hits = {} THEN None ELSE Some(m.sources[CHOOSE k \in hits : \A j \in hits : k <= j])

\* accessor.access(data, index): the index-th logical element, `stride` values long
access(accessor, data, index) ==
    SubSeq(data, accessor.stride * index + 1, accessor.stride * index + accessor.stride)

\* `for polygon in polylist { for vertex in &polygon { for attribute in vertex`:
\* the attributes of the c-th corner (1-based, over all polygons), one per offset
Attributes(pl, c) ==
    LET stride == Stride(pl.inputs)
    IN  [o \in 1..stride |-> [offset |-> o - 1, index |-> pl.p[(c - 1) * stride + o]]]

TotalCorners(pl) == Sum(pl.vcount)

-----------------------------------------------------------------------------
(* process_polylist *)

Min(a, b) == IF a <= b THEN a ELSE b

\* a faulty variant: the components are taken by place, whatever the params are named
ZipPositional(params, data, k, xyz) ==
    [x |-> IF Len(data) >= 1 /\ Len(params) >= 1 THEN Some(data[1]) ELSE None,
     y |-> IF Len(data) >= 2 /\ Len(params) >= 2 THEN Some(data[2]) ELSE None,
     z |-> IF Len(data) >= 3 /\ Len(params) >= 3 THEN Some(data[3]) ELSE None]

\* the loop over accessor.params.iter().zip(data.iter()), from pair k on
RECURSIVE ZipComponents(_, _, _, _)
ZipComponents(params, data, k, xyz) ==
    IF k > Min(Len(params), Len(data)) THEN xyz
    ELSE ZipComponents(params, data, k + 1,
            IF params[k] = X THEN [xyz EXCEPT !.x = Some(data[k])]
            ELSE IF params[k] = Y THEN [xyz EXCEPT !.y = Some(data[k])]
            ELSE IF params[k] = Z THEN [xyz EXCEPT !.z = Some(data[k])]
            ELSE xyz)

Value(v) == [panic |-> None, value |-> Some(v)]
Fatal(m) == [panic |-> Some(m), value |-> None]

\* the value of an Option<f32>, 0 when it is None
OrZero(o) == IF o = None THEN 0 ELSE Unwrap(o)

\* a faulty variant: a component no param names is 0 (unwrap_or_default for expect)
ReadVectorDefaulting(m, source_id, index) ==
    LET source == find_source(m, source_id)
    IN  IF source = None THEN Fatal(NoSourceMsg)
        ELSE IF Unwrap(source).accessor = None THEN Fatal(NoAccessorMsg)
        ELSE IF Unwrap(source).array /= "float" THEN Fatal(NotFloatMsg)
        ELSE LET accessor == Unwrap(Unwrap(source).accessor)
                 data == access(accessor, Unwrap(source).data, index)
                 xyz == ZipComponents(accessor.params, data, 1, [x |-> None, y |-> None, z |-> None])
             IN  Value(<<OrZero(xyz.x), OrZero(xyz.y), OrZero(xyz.z)>>)

\* find the source, its accessor and float array, access the element, name its components
ReadVector(m, source_id, index) ==
    LET source == find_source(m, source_id)
    IN  IF source = None THEN Fatal(NoSourceMsg)
        ELSE IF Unwrap(source).accessor = None THEN Fatal(NoAccessorMsg)
        ELSE IF Unwrap(source).array /= "float" THEN Fatal(NotFloatMsg)
        ELSE LET accessor == Unwrap(Unwrap(source).accessor)
                 data == access(accessor, Unwrap(source).data, index)
                 xyz == ZipComponents(accessor.params, data, 1, [x |-> None, y |-> None, z |-> None])
             IN  IF xyz.x = None THEN Fatal(NoXMsg)
                 ELSE IF xyz.y = None THEN Fatal(NoYMsg)
                 ELSE IF xyz.z = None THEN Fatal(NoZMsg)
                 ELSE Value(<<Unwrap(xyz.x), Unwrap(xyz.y), Unwrap(xyz.z)>>)

\* the first input of mesh.vertices.inputs whose semantic is "POSITION", if any
PositionInput(m) ==
    LET hits == {k \in 1..Len(m.vertices.inputs) : m.vertices.inputs[k].semantic = "POSITION"}
    IN  IF hits = {} THEN None ELSE Some(m.vertices.inputs[CHOOSE k \in hits : \A j \in hits : k <= j])

\* a faulty variant: the assert_eq! on the Vertices id is left out
VertexArmUnchecked(m, input, index) ==
    IF PositionInput(m) = None THEN Fatal(NoPositionInputMsg)
    ELSE ReadVector(m, Unwrap(PositionInput(m)).source, index)

\* a faulty variant: a Vertices block without POSITION gives no position instead of a panic
VertexArmLenient(m, input, index) ==
    IF m.vertices.id /= input.source THEN Fatal(ForeignVerticesMsg)
    ELSE IF PositionInput(m) = None THEN [panic |-> None, value |-> None]
    ELSE ReadVector(m, Unwrap(PositionInput(m)).source, index)

\* the "VERTEX" arm
VertexArm(m, input, index) ==
    IF m.vertices.id /= input.source THEN Fatal(ForeignVerticesMsg)
    ELSE IF PositionInput(m) = None THEN Fatal(NoPositionInputMsg)
    ELSE ReadVector(m, Unwrap(PositionInput(m)).source, index)

\* the "NORMAL" arm
NormalArm(m, input, index) == ReadVector(m, input.source, index)

\* a faulty variant: an unknown semantic is an error
UnknownArmFatal(v) == [v EXCEPT !.panic = Some("Unknown semantic")]

\* the arm for any other semantic: a notice is printed, nothing else happens
UnknownArm(v) == v

\* a faulty variant: a position or normal already set for the corner is kept
HandleInputKeepFirst(m, input, index, v) ==
    IF IsSome(v.panic) THEN v
    ELSE IF input.semantic = "VERTEX" THEN
        LET r == VertexArm(m, input, index)
        IN  IF IsSome(r.panic) THEN [v EXCEPT !.panic = r.panic]
            ELSE IF IsSome(v.position) THEN v ELSE [v EXCEPT !.position = r.value]
    ELSE IF input.semantic = "NORMAL" THEN
        LET r == NormalArm(m, input, index)
        IN  IF IsSome(r.panic) THEN [v EXCEPT !.panic = r.panic]
            ELSE IF IsSome(v.normal) THEN v ELSE [v EXCEPT !.normal = r.value]
    ELSE UnknownArm(v)

\* one turn of `for input in polylist.inputs_for_offset(attribute.offset)`;
\* v is [position, normal, panic]; once panicked nothing more runs
HandleInput(m, input, index, v) ==
    IF IsSome(v.panic) THEN v
    ELSE IF input.semantic = "VERTEX" THEN
        LET r == VertexArm(m, input, index)
        IN  IF IsSome(r.panic) THEN [v EXCEPT !.panic = r.panic] ELSE [v EXCEPT !.position = r.value]
    ELSE IF input.semantic = "NORMAL" THEN
        LET r == NormalArm(m, input, index)
        IN  IF IsSome(r.panic) THEN [v EXCEPT !.panic = r.panic] ELSE [v EXCEPT !.normal = r.value]
    ELSE UnknownArm(v)

RECURSIVE HandleInputs(_, _, _, _)
HandleInputs(m, inputs, index, v) ==
    IF inputs = <<>> THEN v
    ELSE HandleInputs(m, Tail(inputs), index, HandleInput(m, inputs[1], index, v))

RECURSIVE HandleAttributes(_, _, _, _)
HandleAttributes(m, pl, attributes, v) ==
    IF attributes = <<>> THEN v
    ELSE HandleAttributes(m, pl, Tail(attributes),
            HandleInputs(m, inputs_for_offset(pl, attributes[1].offset), attributes[1].index, v))

\* `let mut position = None; let mut normal = None;`
NewVertex == [position |-> None, normal |-> None, panic |-> None]

\* the body of `for vertex in &polygon` up to the position check, for the c-th corner
ProcessVertex(m, pl, c) == HandleAttributes(m, pl, Attributes(pl, c), NewVertex)

PolygonVertex(v) == [position |-> Unwrap(v.position), normal |-> v.normal, texcoord |-> <<>>]

\* the whole call as a function of its arguments: the panic or error it ends with, or
\* Ok of what it hands to the builder (whose verdict is not the loader's)
RECURSIVE DecodeFrom(_, _, _, _)
DecodeFrom(m, pl, c, vs) ==
    IF c > TotalCorners(pl) THEN Ok(vs, [k \in 1..Len(vs) |-> k - 1])
    ELSE LET v == ProcessVertex(m, pl, c)
         IN  IF IsSome(v.panic) THEN Panic(Unwrap(v.panic))
             ELSE IF v.position = None THEN Err(MissingPositionMsg)
             ELSE DecodeFrom(m, pl, c + 1, Append(vs, PolygonVertex(v)))

Decode(m, pl) == DecodeFrom(m, pl, 1, <<>>)

Decoding == pc = "decode" /\ corner < TotalCorners(polylist)

\* a faulty variant: a vertex equal to one already added is welded to it
AddVertexWelded ==
    /\ Decoding
    /\ LET v == ProcessVertex(mesh, polylist, corner + 1)
           same == {k \in 1..Len(builder) : builder[k] = PolygonVertex(v)}
       IN  /\ v.panic = None
           /\ IsSome(v.position)
           /\ builder' = IF same = {} THEN Append(builder, PolygonVertex(v)) ELSE builder
           /\ indices' = Append(indices, IF same = {} THEN Len(builder) ELSE (CHOOSE k \in same : TRUE) - 1)
    /\ corner' = corner + 1
    /\ UNCHANGED <<document, li, gi, pi, mesh, polylist, pc, outcome, loaded>>

\* a corner with a position: add_vertex, push the next index
AddVertex ==
    /\ Decoding
    /\ LET v == ProcessVertex(mesh, polylist, corner + 1)
       IN  /\ v.panic = None
           /\ IsSome(v.position)
           /\ builder' = Append(builder, PolygonVertex(v))
           \* `indices.len() as u32`: the cast is exact below 2^32 corners
           /\ indices' = Append(indices, Len(indices))
    /\ corner' = corner + 1
    /\ UNCHANGED <<document, li, gi, pi, mesh, polylist, pc, outcome, loaded>>

\* a faulty variant: a corner without a position is skipped
MissingPositionSkips ==
    /\ Decoding
    /\ LET v == ProcessVertex(mesh, polylist, corner + 1)
       IN  v.panic = None /\ v.position = None
    /\ corner' = corner + 1
    /\ UNCHANGED <<document, li, gi, pi, mesh, polylist, pc, builder, indices, outcome, loaded>>

\* a corner without a position: `position.ok_or(...)?` returns the error
MissingPosition ==
    /\ Decoding
    /\ LET v == ProcessVertex(mesh, polylist, corner + 1)
       IN  v.panic = None /\ v.position = None
    /\ outcome' = Err(MissingPositionMsg)
    /\ pc' = "returned"
    /\ UNCHANGED <<document, li, gi, pi, mesh, polylist, corner, builder, indices, loaded>>

\* an assert_eq! or expect fails while a corner is processed: the thread panics
Abort ==
    /\ Decoding
    /\ LET v == ProcessVertex(mesh, polylist, corner + 1)
       IN  /\ IsSome(v.panic)
           /\ outcome' = Panic(Unwrap(v.panic))
    /\ pc' = "aborted"
    /\ UNCHANGED <<document, li, gi, pi, mesh, polylist, corner, builder, indices, loaded>>

\* builder.set_indices(&*indices).build() accepts the data
BuildOk ==
    /\ pc = "decode" /\ corner = TotalCorners(polylist)
    /\ outcome' = Ok(builder, indices)
    /\ pc' = "returned"
    /\ UNCHANGED <<document, li, gi, pi, mesh, polylist, corner, builder, indices, loaded>>

\* builder.set_indices(&*indices).build() rejects the data: map_err gives the error
BuildFail ==
    /\ pc = "decode" /\ corner = TotalCorners(polylist)
    /\ outcome' = Err(BuildFailedMsg)
    /\ pc' = "returned"
    /\ UNCHANGED <<document, li, gi, pi, mesh, polylist, corner, builder, indices, loaded>>

process_polylist == AddVertex \/ MissingPosition \/ Abort \/ BuildOk \/ BuildFail

\* a direct call process_polylist(mesh, polylist)
Init ==
    /\ document = <<>>
    /\ li = 0 /\ gi = 0 /\ pi = 0
    /\ mesh \in Meshes
    /\ polylist \in Polylists
    /\ pc = "decode"
    /\ corner = 0
    /\ builder = <<>>
    /\ indices = <<>>
    /\ outcome = Running
    /\ loaded = Running

Next == process_polylist

Spec == Init /\ [][Next]_vars

-----------------------------------------------------------------------------
(* load_mesh *)

\* li, gi, pi count the elements each loop has taken from its iterator
Geometries == document[li].geometries
MeshPrimitives == document[li].geometries[gi].mesh.primitives

scan == <<mesh, polylist, corner, builder, indices, outcome, loaded>>

\* a faulty variant: a library that is no geometries library ends the search
SkipLibraryStops ==
    /\ pc = "libraries" /\ li < Len(document)
    /\ document[li + 1].kind /= "geometries"
    /\ loaded' = Err(NoMeshesFound)
    /\ pc' = "done"
    /\ UNCHANGED <<document, li, gi, pi, mesh, polylist, corner, builder, indices, outcome>>

\* filter_map(Library::as_library_geometries) drops the next library
SkipLibrary ==
    /\ pc = "libraries" /\ li < Len(document)
    /\ document[li + 1].kind /= "geometries"
    /\ li' = li + 1
    /\ UNCHANGED <<document, gi, pi, pc>> /\ UNCHANGED scan

\* the outer loop takes the next geometries library
EnterLibrary ==
    /\ pc = "libraries" /\ li < Len(document)
    /\ document[li + 1].kind = "geometries"
    /\ li' = li + 1 /\ gi' = 0 /\ pc' = "geometries"
    /\ UNCHANGED <<document, pi>> /\ UNCHANGED scan

\* the outer loop ends: Err("No meshes found in the document I guess")
NotFound ==
    /\ pc = "libraries" /\ li = Len(document)
    /\ loaded' = Err(NoMeshesFound)
    /\ pc' = "done"
    /\ UNCHANGED <<document, li, gi, pi, mesh, polylist, corner, builder, indices, outcome>>

\* filter_map(|geometry| geometry.geometric_element.as_mesh()) drops the next geometry
SkipGeometry ==
    /\ pc = "geometries" /\ gi < Len(Geometries)
    /\ Geometries[gi + 1].kind /= "mesh"
    /\ gi' = gi + 1
    /\ UNCHANGED <<document, li, pi, pc>> /\ UNCHANGED scan

\* `for mesh in meshes` takes the next mesh
EnterMesh ==
    /\ pc = "geometries" /\ gi < Len(Geometries)
    /\ Geometries[gi + 1].kind = "mesh"
    /\ gi' = gi + 1 /\ pi' = 0 /\ pc' = "primitives"
    /\ UNCHANGED <<document, li>> /\ UNCHANGED scan

\* `for mesh in meshes` ends
LeaveLibrary ==
    /\ pc = "geometries" /\ gi = Len(Geometries)
    /\ pc' = "libraries"
    /\ UNCHANGED <<document, li, gi, pi>> /\ UNCHANGED scan

\* filter_map(Primitive::as_polylist) drops the next primitive
SkipPrimitive ==
    /\ pc = "primitives" /\ pi < Len(MeshPrimitives)
    /\ MeshPrimitives[pi + 1].kind /= "polylist"
    /\ pi' = pi + 1
    /\ UNCHANGED <<document, li, gi, pc>> /\ UNCHANGED scan

\* the inner loop takes the next polylist: process_polylist(mesh, polylist) is called
CallProcessPolylist ==
    /\ pc = "primitives" /\ pi < Len(MeshPrimitives)
    /\ MeshPrimitives[pi + 1].kind = "polylist"
    /\ pi' = pi + 1
    /\ mesh' = document[li].geometries[gi].mesh
    /\ polylist' = MeshPrimitives[pi + 1].polylist
    /\ corner' = 0 /\ builder' = <<>> /\ indices' = <<>> /\ outcome' = Running
    /\ pc' = "decode"
    /\ UNCHANGED <<document, li, gi, loaded>>

\* the inner loop ends
LeaveMesh ==
    /\ pc = "primitives" /\ pi = Len(MeshPrimitives)
    /\ pc' = "geometries"
    /\ UNCHANGED <<document, li, gi, pi>> /\ UNCHANGED scan

\* a faulty variant: a polylist that fails to decode is passed over and the search goes on
ReturnOnlyOk ==
    /\ pc \in {"returned", "aborted"}
    /\ IF outcome.kind = "err"
       THEN pc' = "primitives" /\ loaded' = loaded
       ELSE pc' = "done" /\ loaded' = outcome
    /\ UNCHANGED <<document, li, gi, pi, mesh, polylist, corner, builder, indices, outcome>>

\* `process_polylist(mesh, polylist)?` then `return Ok(mesh)`: the call's result, Ok or
\* Err, is load_mesh's; a panic unwinds through load_mesh
Return ==
    /\ pc \in {"returned", "aborted"}
    /\ loaded' = outcome
    /\ pc' = "done"
    /\ UNCHANGED <<document, li, gi, pi, mesh, polylist, corner, builder, indices, outcome>>

load_mesh ==
    \/ SkipLibrary \/ EnterLibrary \/ NotFound
    \/ SkipGeometry \/ EnterMesh \/ LeaveLibrary
    \/ SkipPrimitive \/ CallProcessPolylist \/ LeaveMesh
    \/ Return

\* a call load_mesh(path) whose file parses to `document`
InitLoad ==
    /\ document \in Documents
    /\ li = 0 /\ gi = 0 /\ pi = 0
    /\ mesh = NoMesh
    /\ polylist = NoPolylist
    /\ pc = "libraries"
    /\ corner = 0
    /\ builder = <<>>
    /\ indices = <<>>
    /\ outcome = Running
    /\ loaded = Running

NextLoad == load_mesh \/ process_polylist

SpecLoad == InitLoad /\ [][NextLoad]_vars

-----------------------------------------------------------------------------
(* What the properties below speak of *)

N == TotalCorners(polylist)
Finished == outcome.kind /= "running"

\* the inputs in the order a corner meets them: by offset, then as declared
RECURSIVE OrderFrom(_, _)
OrderFrom(pl, o) ==
    IF o >= Stride(pl.inputs) THEN <<>>
    ELSE SelectSeq(pl.inputs, LAMBDA i : i.offset = o) \o OrderFrom(pl, o + 1)

ProcessingOrder(pl) == OrderFrom(pl, 0)

\* the index the c-th corner carries at offset o, read off the stream `p`
IndexAt(pl, c, o) == pl.p[(c - 1) * Stride(pl.inputs) + o + 1]

\* what one input, processed alone for the c-th corner, gives
Single(m, pl, input, c) == HandleInput(m, input, IndexAt(pl, c, input.offset), NewVertex)

\* the places in the processing order whose input panics (the same for every corner:
\* every index of the model is in range)
FatalPlaces(m, pl) ==
    {k \in 1..Len(ProcessingOrder(pl)) : IsSome(Single(m, pl, ProcessingOrder(pl)[k], 1).panic)}

SetMin(S) == CHOOSE m \in S : \A k \in S : m <= k

PlacesOf(pl, semantic) ==
    {k \in 1..Len(ProcessingOrder(pl)) : ProcessingOrder(pl)[k].semantic = semantic}

HasSource(m, id) == \E k \in 1..Len(m.sources) : m.sources[k].id = id
SourceById(m, id) == m.sources[SetMin({k \in 1..Len(m.sources) : m.sources[k].id = id})]

LacksPosition(m) == \A k \in 1..Len(m.vertices.inputs) : m.vertices.inputs[k].semantic /= "POSITION"
PositionId(m) ==
    m.vertices.inputs[SetMin({k \in 1..Len(m.vertices.inputs) : m.vertices.inputs[k].semantic = "POSITION"})].source

ForeignVertex(m, input) == input.semantic = "VERTEX" /\ input.source /= m.vertices.id

\* the id of the source a VERTEX or NORMAL input reads
TargetId(m, input) == IF input.semantic = "VERTEX" THEN PositionId(m) ELSE input.source

\* the input gets as far as pairing params with the accessed slice
ReachesPairing(m, input) ==
    /\ input.semantic \in {"VERTEX", "NORMAL"}
    /\ input.semantic = "VERTEX" => input.source = m.vertices.id /\ ~LacksPosition(m)
    /\ HasSource(m, TargetId(m, input))
    /\ SourceById(m, TargetId(m, input)).accessor /= None
    /\ SourceById(m, TargetId(m, input)).array = "float"

\* the name is paired with a value: it is among the first min(|params|, stride) params
Paired(src, name) ==
    \E k \in 1..Min(Len(Unwrap(src.accessor).params), Unwrap(src.accessor).stride) :
        Unwrap(src.accessor).params[k] = name

MissingComponent(m, input) ==
    /\ ReachesPairing(m, input)
    /\ \E name \in {X, Y, Z} : ~Paired(SourceById(m, TargetId(m, input)), name)

MissingComponentMsg(src) ==
    IF ~Paired(src, X) THEN NoXMsg ELSE IF ~Paired(src, Y) THEN NoYMsg ELSE NoZMsg

\* a float source with an accessor of stride 3 whose params are X, Y, Z in some order
Stride3(src) ==
    /\ src.array = "float" /\ src.accessor /= None
    /\ Unwrap(src.accessor).stride = 3
    /\ Len(Unwrap(src.accessor).params) = 3
    /\ {Unwrap(src.accessor).params[k] : k \in 1..3} = {X, Y, Z}

Slot(src, name) == CHOOSE k \in 1..3 : Unwrap(src.accessor).params[k] = name

\* (X, Y, Z) of element i of a Stride3 source, read off its raw data
Element(src, i) ==
    <<src.data[3 * i + Slot(src, X)], src.data[3 * i + Slot(src, Y)], src.data[3 * i + Slot(src, Z)]>>

\* the outcome is what `ref` (a Decode result) allows: the same, or the builder's refusal
Matches(out, ref) == out = ref \/ (ref.kind = "ok" /\ out = Err(BuildFailedMsg))

Identity(n) == [k \in 1..n |-> k - 1]

-----------------------------------------------------------------------------
(* C1 *)

\* C1: one vertex per polygon corner, in traversal order, and identity indices: at
\* every moment as many vertices were added as indices pushed, the k-th index is k-1
\* and the k-th vertex is the k-th corner's; a mesh is built from exactly N vertices
\* and the indices 0..N-1.
C1_OneVertexPerCorner ==
    /\ Len(builder) = corner /\ Len(indices) = corner
    /\ indices = Identity(corner)
    /\ \A c \in 1..Len(builder) : builder[c] = PolygonVertex(ProcessVertex(mesh, polylist, c))
    /\ outcome.kind = "ok" =>
        /\ Len(outcome.vertices) = N /\ outcome.vertices = builder
        /\ outcome.indices = Identity(N)
    /\ (Finished /\ outcome.kind /= "panic" /\ outcome /= Err(MissingPositionMsg)) => corner = N

\* a mesh built from two polygons, one of them with more than 3 corners
C1_Witness == outcome.kind = "ok" /\ polylist.vcount = <<4, 3>> /\ Len(outcome.indices) = 7

-----------------------------------------------------------------------------
(* C2, C3: properties of SpecLoad *)

\* the (library, geometry, primitive) places of the document's (Mesh, Polylist) pairs
Pairs(doc) ==
    {t \in (1..Len(doc)) \X (1..MaxNodes + 1) \X (1..MaxNodes + 1) :
        /\ doc[t[1]].kind = "geometries"
        /\ t[2] <= Len(doc[t[1]].geometries)
        /\ doc[t[1]].geometries[t[2]].kind = "mesh"
        /\ t[3] <= Len(doc[t[1]].geometries[t[2]].mesh.primitives)
        /\ doc[t[1]].geometries[t[2]].mesh.primitives[t[3]].kind = "polylist"}

Before(s, t) ==
    \/ s[1] < t[1]
    \/ s[1] = t[1] /\ s[2] < t[2]
    \/ s[1] = t[1] /\ s[2] = t[2] /\ s[3] < t[3]

FirstPair(doc) == CHOOSE t \in Pairs(doc) : \A s \in Pairs(doc) : s = t \/ Before(t, s)

PairMesh(doc, t) == doc[t[1]].geometries[t[2]].mesh
PairPolylist(doc, t) == doc[t[1]].geometries[t[2]].mesh.primitives[t[3]].polylist

\* C2: when the document has a (Mesh, Polylist) pair, load_mesh ends with the outcome
\* of process_polylist on the first pair in document order, mesh, error or panic, and
\* process_polylist was called on that pair only.
C2_FirstPairDecides ==
    (pc = "done" /\ Pairs(document) /= {}) =>
        /\ <<li, gi, pi>> = FirstPair(document)
        /\ mesh = PairMesh(document, FirstPair(document))
        /\ polylist = PairPolylist(document, FirstPair(document))
        /\ Finished /\ loaded = outcome
        /\ Matches(loaded, Decode(PairMesh(document, FirstPair(document)),
                                  PairPolylist(document, FirstPair(document))))

\* the first pair fails to decode and a later pair would decode
C2_Witness ==
    /\ pc = "done" /\ loaded = Err(MissingPositionMsg)
    /\ \E t \in Pairs(document) : Decode(PairMesh(document, t), PairPolylist(document, t)).kind = "ok"

\* C3: load_mesh returns Err(not found) exactly when the document has no
\* (Mesh, Polylist) pair; no error of process_polylist is that error.
C3_NotFoundIffNoPair ==
    /\ pc = "done" => (loaded = Err(NoMeshesFound) <=> Pairs(document) = {})
    /\ Finished => outcome /= Err(NoMeshesFound)

\* not found in a document that has a geometries library with a mesh, but no polylist
C3_Witness ==
    /\ pc = "done" /\ loaded = Err(NoMeshesFound)
    /\ \E l \in 1..Len(document) :
        /\ document[l].kind = "geometries"
        /\ \E g \in 1..Len(document[l].geometries) :
            /\ document[l].geometries[g].kind = "mesh"
            /\ document[l].geometries[g].mesh.primitives /= <<>>

-----------------------------------------------------------------------------
(* C4 *)

\* the first corner from c on that panics or ends without a position; 0 if none does
RECURSIVE FirstFailing(_, _, _)
FirstFailing(m, pl, c) ==
    IF c > TotalCorners(pl) THEN 0
    ELSE IF IsSome(ProcessVertex(m, pl, c).panic) \/ ProcessVertex(m, pl, c).position = None THEN c
    ELSE FirstFailing(m, pl, c + 1)

FailsPositionless(m, pl) ==
    /\ FirstFailing(m, pl, 1) /= 0
    /\ ProcessVertex(m, pl, FirstFailing(m, pl, 1)).panic = None

\* C4: when the first corner to fail is one left without a position, the call returns
\* Err("Vertex missing position attribute"): no corner after it is processed, nothing
\* is added for it, the builder is never asked to build, no mesh is returned.
C4_MissingPositionFails ==
    (Finished /\ FailsPositionless(mesh, polylist)) =>
        /\ outcome = Err(MissingPositionMsg)
        /\ pc /= "aborted"
        /\ corner = FirstFailing(mesh, polylist, 1) - 1
        /\ Len(builder) = corner /\ Len(indices) = corner

C4_Witness == outcome = Err(MissingPositionMsg) /\ N = 7 /\ PlacesOf(polylist, "NORMAL") /= {}

-----------------------------------------------------------------------------
(* C5 *)

HasForeignVertex == \E k \in 1..Len(polylist.inputs) : ForeignVertex(mesh, polylist.inputs[k])

\* C5 as stated: a polylist with a VERTEX input whose source id is not the mesh's
\* Vertices.id makes decoding fail with the (fatal) consistency violation and never
\* produces a mesh.
C5_AsStated == (Finished /\ HasForeignVertex) => outcome.kind = "panic"

\* C5, amended: such a polylist with at least one polygon corner never produces a
\* mesh: the call panics in its first corner, before any vertex is added, and with
\* the consistency violation when that input is the first to fail.
C5_ForeignVertexAborts ==
    (Finished /\ HasForeignVertex /\ N >= 1) =>
        /\ outcome.kind = "panic" /\ pc /= "returned"
        /\ corner = 0 /\ builder = <<>>
        /\ ForeignVertex(mesh, ProcessingOrder(polylist)[SetMin(FatalPlaces(mesh, polylist))])
            => outcome = Panic(ForeignVerticesMsg)

C5_Witness ==
    /\ outcome = Panic(ForeignVerticesMsg) /\ N >= 1
    /\ Len(polylist.inputs) >= 2 /\ ~ForeignVertex(mesh, ProcessingOrder(polylist)[1])

-----------------------------------------------------------------------------
(* C6 *)

-----------------------------------------------------------------------------
(* C7 *)

TheInput(pl, semantic) == ProcessingOrder(pl)[SetMin(PlacesOf(pl, semantic))]

TriangleVertex(position, normal) == [position |-> position, normal |-> Some(normal), texcoord |-> <<>>]

\* C7: with one VERTEX input, whose POSITION source has stride 3 and params X, Y, Z
\* in some order, a corner carrying index i at that input's offset gets the position
\* (data[3i + place of X], data[3i + place of Y], data[3i + place of Z]) of that
\* source; likewise the normal, from the source of the one NORMAL input; and the
\* one-triangle scenario decodes to its three vertices and the indices 0, 1, 2.
C7_ElementByName ==
    /\ Finished => \A c \in 1..Len(builder) :
        /\ (/\ Cardinality(PlacesOf(polylist, "VERTEX")) = 1
            /\ HasSource(mesh, PositionId(mesh))
            /\ Stride3(SourceById(mesh, PositionId(mesh))))
            => builder[c].position =
                Element(SourceById(mesh, PositionId(mesh)),
                        IndexAt(polylist, c, TheInput(polylist, "VERTEX").offset))
        /\ (/\ Cardinality(PlacesOf(polylist, "NORMAL")) = 1
            /\ HasSource(mesh, TheInput(polylist, "NORMAL").source)
            /\ Stride3(SourceById(mesh, TheInput(polylist, "NORMAL").source)))
            => builder[c].normal =
                Some(Element(SourceById(mesh, TheInput(polylist, "NORMAL").source),
                             IndexAt(polylist, c, TheInput(polylist, "NORMAL").offset)))
    /\ (mesh = ScenarioMesh /\ polylist = ScenarioPolylist /\ Finished) =>
        Matches(outcome, Ok(<<TriangleVertex(<<0, 0, 0>>, <<0, 0, 1>>),
                              TriangleVertex(<<1, 0, 0>>, <<0, 0, 1>>),
                              TriangleVertex(<<0, 1, 0>>, <<0, 0, 1>>)>>, <<0, 1, 2>>))

\* a mesh is built whose positions and normals come from a source with params
\* Z, Y, X, the normal at another index than the position
C7_Witness ==
    /\ outcome.kind = "ok" /\ N >= 4
    /\ PositionId(mesh) = "zyx"
    /\ polylist.inputs = <<Input(1, "NORMAL", "zyx"), Input(0, "VERTEX", "verts")>>
    /\ outcome.vertices[2] = [position |-> <<6, 5, 4>>, normal |-> Some(<<9, 8, 7>>), texcoord |-> <<>>]

-----------------------------------------------------------------------------
(* C8 *)

\* the first input of the processing order that lacks a component, if it is reached:
\* no input before it panics
ReachedMissingComponent(m, pl) ==
    {k \in 1..Len(ProcessingOrder(pl)) :
        /\ MissingComponent(m, ProcessingOrder(pl)[k])
        /\ \A j \in 1..(k - 1) : j \notin FatalPlaces(m, pl)}

\* C8: a VERTEX or NORMAL input whose pairing of params with the accessed slice lacks
\* X, Y or Z never lets a mesh be produced once a corner is processed, and when the
\* input is reached the call panics with the missing-component message, before any
\* vertex is added: no default value stands in.
C8_MissingComponentAborts ==
    (Finished /\ N >= 1) =>
        /\ (\E k \in 1..Len(polylist.inputs) : MissingComponent(mesh, polylist.inputs[k]))
            => outcome.kind = "panic" /\ builder = <<>>
        /\ \A k \in ReachedMissingComponent(mesh, polylist) :
            outcome = Panic(MissingComponentMsg(
                        SourceById(mesh, TargetId(mesh, ProcessingOrder(polylist)[k]))))

\* Z is missing because the slice (stride 2) is shorter than the params X, Y, Z
C8_Witness ==
    /\ outcome = Panic(NoZMsg) /\ N >= 1
    /\ PlacesOf(polylist, "VERTEX") /= {} /\ ~LacksPosition(mesh) /\ PositionId(mesh) = "short"

-----------------------------------------------------------------------------
(* C9 *)

Known(input) == input.semantic \in {"VERTEX", "NORMAL"}
HasUnknown(pl) == \E k \in 1..Len(pl.inputs) : ~Known(pl.inputs[k])

\* the polylist without its inputs of unknown semantic
Stripped(pl) == [pl EXCEPT !.inputs = SelectSeq(pl.inputs, Known)]

\* C9: inputs whose semantic is neither VERTEX nor NORMAL change nothing: when they
\* sit at offsets within the stride of the others, the call ends as it does on the
\* polylist without them: same vertices and indices handed to the builder, same
\* error, same panic.
C9_UnknownSemanticIgnored ==
    (Finished /\ HasUnknown(polylist) /\ Stride(Stripped(polylist).inputs) = Stride(polylist.inputs)) =>
        /\ Matches(outcome, Decode(mesh, Stripped(polylist)))
        /\ Decode(mesh, Stripped(polylist)).kind = "ok" =>
            /\ builder = Decode(mesh, Stripped(polylist)).vertices
            /\ indices = Decode(mesh, Stripped(polylist)).indices

\* a mesh with normals is built from a polylist that also binds TEXCOORD at offset 0
C9_Witness ==
    /\ outcome.kind = "ok" /\ N >= 3
    /\ HasUnknown(polylist) /\ PlacesOf(polylist, "NORMAL") /= {}
    /\ ~Known(ProcessingOrder(polylist)[1])

-----------------------------------------------------------------------------
(* C10 *)

LastPlace(pl, semantic) == SetMax(PlacesOf(pl, semantic))

\* C10: every input is processed, by offset and then as declared: if any input
\* panics, the call panics in its first corner with the message of the first such
\* input, also when a later input of the same semantic would have replaced its
\* value; otherwise each vertex has the position of the last VERTEX input and the
\* normal of the last NORMAL input (none without a NORMAL input).
C10_LastInputWins ==
    /\ (Finished /\ N >= 1 /\ FatalPlaces(mesh, polylist) /= {}) =>
        /\ outcome = Panic(Unwrap(Single(mesh, polylist,
                ProcessingOrder(polylist)[SetMin(FatalPlaces(mesh, polylist))], 1).panic))
        /\ builder = <<>>
    /\ Finished => \A c \in 1..Len(builder) :
        /\ PlacesOf(polylist, "VERTEX") /= {}
        /\ builder[c].position =
            Unwrap(Single(mesh, polylist,
                          ProcessingOrder(polylist)[LastPlace(polylist, "VERTEX")], c).position)
        /\ builder[c].normal =
            IF PlacesOf(polylist, "NORMAL") = {} THEN None
            ELSE Single(mesh, polylist,
                        ProcessingOrder(polylist)[LastPlace(polylist, "NORMAL")], c).normal

\* a vertex whose normal is not the one an earlier NORMAL input gave
C10_Witness ==
    /\ outcome.kind = "ok" /\ N >= 1
    /\ \E j \in PlacesOf(polylist, "NORMAL") :
        /\ j < LastPlace(polylist, "NORMAL")
        /\ Single(mesh, polylist, ProcessingOrder(polylist)[j], 1).normal /= outcome.vertices[1].normal

=============================================================================
